---- MODULE Spec2Model ----
(***************************************************************************)
(* CPU SpMM kernels of torch_sparse (cpu/spmm.cpp): the forward kernel     *)
(* spmm (CSR sparse x batched dense with a sum/mean/min/max reduction) and *)
(* the value-gradient kernel spmm_val_bw.                                  *)
(*                                                                         *)
(* The element type scalar_t is modelled as an unsigned integer type of    *)
(* ScalarBits bits (uint8_t scaled down): every store into a scalar_t      *)
(* converts modulo 2^ScalarBits, as the C++ conversion does.  Tensors are  *)
(* flat buffers indexed from 0, as the DATA_PTR arithmetic of the source   *)
(* indexes them.                                                           *)
(***************************************************************************)
EXTENDS Integers, Sequences, FiniteSets, TLC

VARIABLES inp, inp2, fwd, fwd2, bwd

vars == <<inp, inp2, fwd, fwd2, bwd>>

(***************************************************************************)
(* Bounds of the model.                                                    *)
(***************************************************************************)
MaxDim == 2
MaxM == 2
MaxE == 2
MaxDense == 4
ScalarBits == 2

(***************************************************************************)
(* scalar_t                                                                *)
(***************************************************************************)
Modulus == 2 ^ ScalarBits
Scalar == 0 .. (Modulus - 1)
ScalarMax == Modulus - 1
ScalarLowest == 0
ToScalar(x) == x % Modulus

\* The content of an element of a torch::empty buffer that was never written.
Uninit == -1

Max2(a, b) == IF a > b THEN a ELSE b

(***************************************************************************)
(* Reduction tokens and the Reducer policy.                                *)
(***************************************************************************)
\* A token map with a sixth entry.
reduce2REDUCE_extra ==
  [t \in {"sum", "add", "mean", "min", "max", "prod"} |->
     CASE t = "mean" -> "MEAN"
       [] t = "min" -> "MIN"
       [] t = "max" -> "MAX"
       [] OTHER -> "SUM"]

reduce2REDUCE ==
  [t \in {"sum", "add", "mean", "min", "max"} |->
     CASE t = "sum" -> "SUM"
       [] t = "add" -> "SUM"
       [] t = "mean" -> "MEAN"
       [] t = "min" -> "MIN"
       [] t = "max" -> "MAX"]

\* std::map::at: throws std::out_of_range for a key that is not in the map.
KnownReduce(reduce) == reduce \in DOMAIN reduce2REDUCE

Reducer_init(REDUCE) ==
  IF REDUCE = "MIN" THEN ScalarMax
  ELSE IF REDUCE = "MAX" THEN ScalarLowest
  ELSE 0

\* Reducer::update that stores the candidate instead of adding it.
Reducer_update_store(REDUCE, val, new_val, arg, new_arg) ==
  IF REDUCE = "SUM" \/ REDUCE = "MEAN"
  THEN [val |-> new_val, arg |-> arg]
  ELSE IF (REDUCE = "MIN" /\ new_val < val) \/ (REDUCE = "MAX" /\ new_val > val)
  THEN [val |-> new_val, arg |-> new_arg]
  ELSE [val |-> val, arg |-> arg]

Reducer_update(REDUCE, val, new_val, arg, new_arg) ==
  IF REDUCE = "SUM" \/ REDUCE = "MEAN"
  THEN [val |-> ToScalar(val + new_val), arg |-> arg]
  ELSE IF (REDUCE = "MIN" /\ new_val < val) \/ (REDUCE = "MAX" /\ new_val > val)
  THEN [val |-> new_val, arg |-> new_arg]
  ELSE [val |-> val, arg |-> arg]

\* Reducer::write without the count > 0 guard of min/max.
Reducer_write_unguarded(REDUCE, address, val, arg_address, arg, count) ==
  IF REDUCE = "SUM"
  THEN [address |-> val, arg_address |-> arg_address]
  ELSE IF REDUCE = "MEAN"
  THEN [address |-> ToScalar(val \div (IF count > 0 THEN count ELSE 1)),
        arg_address |-> arg_address]
  ELSE [address |-> val, arg_address |-> arg]

\* Reducer::write whose mean divides by count + 1.
Reducer_write_off_by_one(REDUCE, address, val, arg_address, arg, count) ==
  IF REDUCE = "SUM"
  THEN [address |-> val, arg_address |-> arg_address]
  ELSE IF REDUCE = "MEAN"
  THEN [address |-> ToScalar(val \div (count + 1)), arg_address |-> arg_address]
  ELSE IF count > 0
  THEN [address |-> val, arg_address |-> arg]
  ELSE [address |-> 0, arg_address |-> arg_address]

\* address / arg_address are the values the two output slots hold before the
\* call; the result is what they hold after it.
Reducer_write(REDUCE, address, val, arg_address, arg, count) ==
  IF REDUCE = "SUM"
  THEN [address |-> val, arg_address |-> arg_address]
  ELSE IF REDUCE = "MEAN"
  THEN [address |-> ToScalar(val \div (IF count > 0 THEN count ELSE 1)),
        arg_address |-> arg_address]
  ELSE IF count > 0
  THEN [address |-> val, arg_address |-> arg]
  ELSE [address |-> 0, arg_address |-> arg_address]

(***************************************************************************)
(* Shapes of a call's operands.                                            *)
(***************************************************************************)
Numel(t) == Cardinality(DOMAIN t)
MatDim(in) == Len(in.mat_sizes)
SizeN(in) == in.mat_sizes[MatDim(in) - 1]
SizeK(in) == in.mat_sizes[MatDim(in)]
SizeB(in) == Numel(in.mat) \div (SizeN(in) * SizeK(in))
SizeM(in) == Numel(in.rowptr) - 1
SizeE(in) == Numel(in.col)

(***************************************************************************)
(* spmm: the forward kernel.  A call's locals are the record               *)
(*   pc          where the call is: idle (no call), check_cpu, check_dim,  *)
(*               alloc, loop, done (returned), failed (threw)              *)
(*   err, msg    the kind and the message of the failure                   *)
(*   b, m        the loop counters                                         *)
(*   vals, args  the per-feature accumulators (std::vector, size K)        *)
(*   out         the output buffer; arg_out, present iff has_arg_out       *)
(***************************************************************************)
Idle ==
  [pc |-> "idle", err |-> "", msg |-> "", b |-> 0, m |-> 0,
   vals |-> <<>>, args |-> <<>>, out |-> <<>>,
   has_arg_out |-> FALSE, arg_out |-> <<>>]

Called == [Idle EXCEPT !.pc = "check_cpu"]

Fail(s, kind, message) == [s EXCEPT !.pc = "failed", !.err = kind, !.msg = message]

\* The device checks without the check of mat.
SpmmCheckCpu_without_mat(in, s) ==
  IF "rowptr" \in in.cuda THEN Fail(s, "device", "rowptr must be CPU tensor")
  ELSE IF "col" \in in.cuda THEN Fail(s, "device", "col must be CPU tensor")
  ELSE IF in.has_value /\ "value" \in in.cuda
  THEN Fail(s, "device", "value_opt.value() must be CPU tensor")
  ELSE [s EXCEPT !.pc = "check_dim"]

\* CHECK_CPU(x): AT_ASSERTM(!x.type().is_cuda(), #x " must be CPU tensor")
SpmmCheckCpu(in, s) ==
  IF "rowptr" \in in.cuda THEN Fail(s, "device", "rowptr must be CPU tensor")
  ELSE IF "col" \in in.cuda THEN Fail(s, "device", "col must be CPU tensor")
  ELSE IF in.has_value /\ "value" \in in.cuda
  THEN Fail(s, "device", "value_opt.value() must be CPU tensor")
  ELSE IF "mat" \in in.cuda THEN Fail(s, "device", "mat must be CPU tensor")
  ELSE [s EXCEPT !.pc = "check_dim"]

SpmmCheckDim(in, s) ==
  IF in.rowptr_dim # 1 THEN Fail(s, "shape", "Input mismatch")
  ELSE IF in.col_dim # 1 THEN Fail(s, "shape", "Input mismatch")
  ELSE IF in.has_value /\ in.value_dim # 1 THEN Fail(s, "shape", "")
  ELSE IF ~(MatDim(in) >= 2) THEN Fail(s, "shape", "Input mismatch")
  ELSE [s EXCEPT !.pc = "alloc"]

\* out = torch::empty(sizes); the token is looked up (reduce2REDUCE.at) to
\* decide whether arg_out = torch::full_like(out, col.numel()) is made; then
\* the vectors vals(K) and args(K) are value-initialised.
SpmmAlloc(in, s) ==
  LET size == SizeB(in) * SizeM(in) * SizeK(in)
      empty == [i \in 0 .. (size - 1) |-> Uninit]
      zeros == [k \in 0 .. (SizeK(in) - 1) |-> 0]
  IN IF ~KnownReduce(in.reduce)
     THEN Fail([s EXCEPT !.out = empty], "reduce", "map::at")
     ELSE [s EXCEPT !.pc = "loop", !.b = 0, !.m = 0,
                    !.out = empty,
                    !.has_arg_out = reduce2REDUCE[in.reduce] \in {"MIN", "MAX"},
                    !.arg_out = IF reduce2REDUCE[in.reduce] \in {"MIN", "MAX"}
                                THEN [i \in 0 .. (size - 1) |-> SizeE(in)]
                                ELSE <<>>,
                    !.vals = zeros, !.args = zeros]

\* for (e = row_start; e < row_end; e++) for (k = 0; k < K; k++) update(...)
RECURSIVE EntryLoop(_, _, _, _, _, _)
EntryLoop(in, REDUCE, b, e, row_end, acc) ==
  IF ~(e < row_end) THEN acc
  ELSE LET K == SizeK(in)
           offset == b * SizeN(in) * K
           c == in.col[e]
           upd(k) ==
             IF in.has_value
             THEN Reducer_update(REDUCE, acc.vals[k],
                                 ToScalar(in.value[e] * in.mat[offset + c * K + k]),
                                 acc.args[k], e)
             ELSE Reducer_update(REDUCE, acc.vals[k], in.mat[offset + c * K + k],
                                 acc.args[k], e)
       IN EntryLoop(in, REDUCE, b, e + 1, row_end,
                    [vals |-> [k \in 0 .. (K - 1) |-> upd(k).val],
                     args |-> [k \in 0 .. (K - 1) |-> upd(k).arg]])

\* One iteration of the (b, m) loop nest, and the step to the next one.
SpmmRow(in, s) ==
  LET REDUCE == reduce2REDUCE[in.reduce]
      K == SizeK(in)
      M == SizeM(in)
      row_start == in.rowptr[s.m]
      row_end == in.rowptr[s.m + 1]
      fresh == [k \in 0 .. (K - 1) |-> Reducer_init(REDUCE)]
      acc == EntryLoop(in, REDUCE, s.b, row_start, row_end,
                       [vals |-> fresh, args |-> s.args])
      offset == s.b * M * K + s.m * K
      wr(k) == Reducer_write(REDUCE, s.out[offset + k], acc.vals[k],
                             IF s.has_arg_out THEN s.arg_out[offset + k] ELSE 0,
                             acc.args[k], row_end - row_start)
      last == s.m + 1 = M
  IN [s EXCEPT !.vals = acc.vals, !.args = acc.args,
               !.out = [i \in DOMAIN s.out |->
                          IF offset <= i /\ i < offset + K
                          THEN wr(i - offset).address ELSE s.out[i]],
               !.arg_out = [i \in DOMAIN s.arg_out |->
                              IF offset <= i /\ i < offset + K
                              THEN wr(i - offset).arg_address ELSE s.arg_out[i]],
               !.m = IF last THEN 0 ELSE s.m + 1,
               !.b = IF last THEN s.b + 1 ELSE s.b]

SpmmReturn(s) == [s EXCEPT !.pc = "done"]

Running(s) == s.pc \notin {"idle", "done", "failed"}

(***************************************************************************)
(* spmm_val_bw: the gradient of the entries' weights.  Its locals are the  *)
(* record pc, err, msg, b, e (the loop counters) and out.                  *)
(***************************************************************************)
BwIdle == [pc |-> "idle", err |-> "", msg |-> "", b |-> 0, e |-> 0, out |-> <<>>]

BwCalled == [BwIdle EXCEPT !.pc = "check_cpu"]

GradM(in) == in.grad_sizes[Len(in.grad_sizes) - 1]

\* What a read of buf[i] can give: the element, or, past the end of the
\* buffer (undefined behaviour), any value of the element type.
Load(buf, i) == IF i \in DOMAIN buf THEN {buf[i]} ELSE Scalar

BwCheckCpu(in, s) ==
  IF "row" \in in.cuda THEN Fail(s, "device", "row must be CPU tensor")
  ELSE IF "rowptr" \in in.cuda THEN Fail(s, "device", "rowptr must be CPU tensor")
  ELSE IF "col" \in in.cuda THEN Fail(s, "device", "col must be CPU tensor")
  ELSE IF "mat" \in in.cuda THEN Fail(s, "device", "mat must be CPU tensor")
  ELSE IF "grad" \in in.cuda THEN Fail(s, "device", "grad must be CPU tensor")
  ELSE [s EXCEPT !.pc = "alloc"]

\* grad.size(-2) and mat.size(-2) throw for a tensor of rank < 2;
\* out = torch::zeros(row.numel()); AT_DISPATCH_REDUCTION_TYPES looks the
\* token up before the loop nest is entered.
BwAlloc(in, s) ==
  LET zeros == [e \in 0 .. (Numel(in.row) - 1) |-> 0]
  IN IF MatDim(in) < 2 \/ Len(in.grad_sizes) < 2
     THEN Fail(s, "index", "Dimension out of range")
     ELSE IF ~KnownReduce(in.reduce)
     THEN Fail([s EXCEPT !.out = zeros], "reduce", "map::at")
     ELSE [s EXCEPT !.pc = "loop", !.b = 0, !.e = 0, !.out = zeros]

\* The dot product read from batch 0 of grad, whatever b is.
RECURSIVE DotLoop_first_batch(_, _, _, _, _)
DotLoop_first_batch(in, b, e, k, vs) ==
  IF ~(k < SizeK(in)) THEN vs
  ELSE LET K == SizeK(in)
           row == in.row[e]
           col == in.col[e]
       IN DotLoop_first_batch(in, b, e, k + 1,
                  {ToScalar(v + x * g) :
                     v \in vs,
                     x \in Load(in.mat, b * SizeN(in) * K + col * K + k),
                     g \in Load(in.grad, row * K + k)})

\* for (k = 0; k < K; k++) val += mat_data[...] * grad_data[...]
RECURSIVE DotLoop(_, _, _, _, _)
DotLoop(in, b, e, k, vs) ==
  IF ~(k < SizeK(in)) THEN vs
  ELSE LET K == SizeK(in)
           row == in.row[e]
           col == in.col[e]
       IN DotLoop(in, b, e, k + 1,
                  {ToScalar(v + x * g) :
                     v \in vs,
                     x \in Load(in.mat, b * SizeN(in) * K + col * K + k),
                     g \in Load(in.grad, b * GradM(in) * K + row * K + k)})

\* val /= (scalar_t)std::max(row_end - row_start, 1): a divisor that converts
\* to 0 is a division by zero (undefined behaviour).
MeanDivide(in, e, v) ==
  LET row == in.row[e]
      row_start == in.rowptr[row]
      row_end == in.rowptr[row + 1]
      d == ToScalar(Max2(row_end - row_start, 1))
  IN IF d = 0 THEN Scalar ELSE {v \div d}

\* The loop body with out_data[e] = val in place of +=.
BwEntry_assign(in, s) ==
  LET dots == DotLoop(in, s.b, s.e, 0, {0})
      valset == IF reduce2REDUCE[in.reduce] = "MEAN"
                THEN UNION {MeanDivide(in, s.e, v) : v \in dots}
                ELSE dots
      last == s.e + 1 = Numel(in.row)
  IN {[s EXCEPT !.out[s.e] = val,
                !.e = IF last THEN 0 ELSE s.e + 1,
                !.b = IF last THEN s.b + 1 ELSE s.b] : val \in valset}

\* The states one iteration of the (b, e) loop nest can lead to.
BwEntry(in, s) ==
  LET REDUCE == reduce2REDUCE[in.reduce]
      E == Numel(in.row)
      dots == DotLoop(in, s.b, s.e, 0, {0})
      valset == IF REDUCE = "MEAN"
                THEN UNION {MeanDivide(in, s.e, v) : v \in dots}
                ELSE dots
      last == s.e + 1 = E
  IN {[s EXCEPT !.out[s.e] = ToScalar(s.out[s.e] + val),
                !.e = IF last THEN 0 ELSE s.e + 1,
                !.b = IF last THEN s.b + 1 ELSE s.b] : val \in valset}

BwReturn(s) == [s EXCEPT !.pc = "done"]

(***************************************************************************)
(* The calls the model makes: the operands are drawn from these sets.      *)
(***************************************************************************)
InputVals == {0, ScalarMax}
BwMatVals == {1, ScalarMax}
GradVals == {1, 2}
Tokens == {"sum", "add", "mean", "min", "max", "prod"}
MainTokens == {"sum", "mean", "min", "max"}

Flat(n, S) == [0 .. (n - 1) -> S]

\* rowptr of a CSR structure with M rows and E entries.
RowPtrs(M, E) ==
  {rp \in [0 .. M -> 0 .. E] :
     /\ rp[0] = 0
     /\ rp[M] = E
     /\ \A m \in 0 .. (M - 1) : rp[m] <= rp[m + 1]}

\* The coordinate form of rowptr: the row of each entry.
RowOf(rp, e) == CHOOSE m \in 0 .. (Numel(rp) - 2) : rp[m] <= e /\ e < rp[m + 1]
RowIndex(rp, E) == [e \in 0 .. (E - 1) |-> RowOf(rp, e)]

Sizes(B, R, K) == IF B = 1 THEN <<R, K>> ELSE <<B, R, K>>

Shapes ==
  {sh \in (1 .. MaxDim) \X (1 .. MaxDim) \X (1 .. MaxDim) : sh[1] * sh[2] * sh[3] <= MaxDense}

SpmmCall(rp, c, hv, v, d, sz, red) ==
  [rowptr |-> rp, col |-> c, has_value |-> hv, value |-> v, mat |-> d,
   mat_sizes |-> sz, reduce |-> red, cuda |-> {},
   rowptr_dim |-> 1, col_dim |-> 1, value_dim |-> 1,
   row |-> <<>>, grad |-> <<>>, grad_sizes |-> <<>>]

BwCall(rp, c, d, sz, g, gsz, red) ==
  [rowptr |-> rp, col |-> c, has_value |-> FALSE, value |-> <<>>, mat |-> d,
   mat_sizes |-> sz, reduce |-> red, cuda |-> {},
   rowptr_dim |-> 1, col_dim |-> 1, value_dim |-> 1,
   row |-> RowIndex(rp, Numel(c)), grad |-> g, grad_sizes |-> gsz]

\* A well-formed spmm call.
InitSpmm ==
  \E sh \in Shapes, M \in 1 .. MaxM, E \in 0 .. MaxE :
    \E rp \in RowPtrs(M, E), c \in Flat(E, 0 .. (sh[2] - 1)), hv \in BOOLEAN :
      \E v \in (IF hv THEN Flat(E, InputVals) ELSE {<<>>}),
         d \in Flat(sh[1] * sh[2] * sh[3], InputVals), red \in MainTokens :
        /\ inp = SpmmCall(rp, c, hv, v, d, Sizes(sh[1], sh[2], sh[3]), red)
        /\ inp2 = inp
        /\ fwd = Called
        /\ fwd2 = Called
        /\ bwd = BwIdle

\* spmm, then spmm_val_bw, on one sparse matrix whose operands may sit on the
\* wrong device or have the wrong rank, and whose token may be any token.
InitSpmmAny ==
  \E cuda \in SUBSET {"rowptr", "col", "value", "mat"},
     rd \in 1 .. 2, cd \in 1 .. 2, vd \in 1 .. 2, md \in 1 .. 3,
     hv \in BOOLEAN, red \in Tokens :
    LET rp == [m \in 0 .. 2 |-> m]
        c == [e \in 0 .. 1 |-> 0]
        v == IF hv THEN [e \in 0 .. 1 |-> 1] ELSE <<>>
        d == [i \in 0 .. 0 |-> 1]
        g == [i \in 0 .. 1 |-> 1]
    IN /\ inp = [SpmmCall(rp, c, hv, v, d, [i \in 1 .. md |-> 1], red)
                   EXCEPT !.cuda = cuda, !.rowptr_dim = rd, !.col_dim = cd,
                          !.value_dim = vd, !.row = RowIndex(rp, 2),
                          !.grad = g, !.grad_sizes = <<2, 1>>]
       /\ inp2 = inp
       /\ fwd = Called
       /\ fwd2 = Called
       /\ bwd = BwCalled

\* An spmm_val_bw call; gK, the last dimension of grad, need not be mat's.
InitBw ==
  \E sh \in Shapes, M \in 1 .. MaxM, E \in 0 .. MaxE, gK \in 1 .. MaxDim,
     red \in Tokens, cuda \in {{}, {"grad"}, {"row", "mat"}} :
    /\ sh[1] * M * gK <= MaxDense
    /\ gK # sh[3] => (red \in {"sum", "mean"} /\ cuda = {})
    /\ \E rp \in RowPtrs(M, E), c \in Flat(E, 0 .. (sh[2] - 1)),
          d \in Flat(sh[1] * sh[2] * sh[3], IF gK = sh[3] THEN BwMatVals ELSE {1}),
          g \in Flat(sh[1] * M * gK,
                     IF red \in {"sum", "mean"} /\ cuda = {} /\ gK = sh[3]
                     THEN GradVals ELSE {1}) :
         /\ inp = [BwCall(rp, c, d, Sizes(sh[1], sh[2], sh[3]), g,
                          Sizes(sh[1], M, gK), red) EXCEPT !.cuda = cuda]
         /\ inp2 = inp
         /\ fwd = Idle
         /\ fwd2 = Idle
         /\ bwd = BwCalled

Init == InitSpmm \/ InitSpmmAny \/ InitBw

(***************************************************************************)
(* The steps.  fwd2 is a second spmm call, on inp2, that is stepped along  *)
(* with the first; the kernels are synchronous, so spmm_val_bw steps only  *)
(* while no spmm call is under way.                                        *)
(***************************************************************************)
FwdCheckCpu ==
  /\ fwd.pc = "check_cpu"
  /\ fwd' = SpmmCheckCpu(inp, fwd)
  /\ fwd2' = SpmmCheckCpu(inp2, fwd2)
  /\ UNCHANGED <<inp, inp2, bwd>>

FwdCheckDim ==
  /\ fwd.pc = "check_dim"
  /\ fwd' = SpmmCheckDim(inp, fwd)
  /\ fwd2' = SpmmCheckDim(inp2, fwd2)
  /\ UNCHANGED <<inp, inp2, bwd>>

FwdAlloc ==
  /\ fwd.pc = "alloc"
  /\ fwd' = SpmmAlloc(inp, fwd)
  /\ fwd2' = SpmmAlloc(inp2, fwd2)
  /\ UNCHANGED <<inp, inp2, bwd>>

FwdRow ==
  /\ fwd.pc = "loop"
  /\ fwd.b < SizeB(inp)
  /\ fwd.m < SizeM(inp)
  /\ fwd' = SpmmRow(inp, fwd)
  /\ fwd2' = SpmmRow(inp2, fwd2)
  /\ UNCHANGED <<inp, inp2, bwd>>

FwdReturn ==
  /\ fwd.pc = "loop"
  /\ ~(fwd.b < SizeB(inp) /\ fwd.m < SizeM(inp))
  /\ fwd' = SpmmReturn(fwd)
  /\ fwd2' = SpmmReturn(fwd2)
  /\ UNCHANGED <<inp, inp2, bwd>>

BackCheckCpu ==
  /\ ~Running(fwd)
  /\ bwd.pc = "check_cpu"
  /\ bwd' = BwCheckCpu(inp, bwd)
  /\ UNCHANGED <<inp, inp2, fwd, fwd2>>

BackAlloc ==
  /\ ~Running(fwd)
  /\ bwd.pc = "alloc"
  /\ bwd' = BwAlloc(inp, bwd)
  /\ UNCHANGED <<inp, inp2, fwd, fwd2>>

BackEntry ==
  /\ ~Running(fwd)
  /\ bwd.pc = "loop"
  /\ bwd.b < SizeB(inp)
  /\ bwd.e < Numel(inp.row)
  /\ bwd' \in BwEntry(inp, bwd)
  /\ UNCHANGED <<inp, inp2, fwd, fwd2>>

BackReturn ==
  /\ ~Running(fwd)
  /\ bwd.pc = "loop"
  /\ ~(bwd.b < SizeB(inp) /\ bwd.e < Numel(inp.row))
  /\ bwd' = BwReturn(bwd)
  /\ UNCHANGED <<inp, inp2, fwd, fwd2>>

Next ==
  \/ FwdCheckCpu
  \/ FwdCheckDim
  \/ FwdAlloc
  \/ FwdRow
  \/ FwdReturn
  \/ BackCheckCpu
  \/ BackAlloc
  \/ BackEntry
  \/ BackReturn

Spec == Init /\ [][Next]_vars

(***************************************************************************)
(* Two spmm calls whose operands differ in one weight or in one dense      *)
(* element, followed by spmm_val_bw on the first call's operands.          *)
(***************************************************************************)
PairShapes == {sh \in Shapes : sh[1] * sh[2] * sh[3] <= MaxDense \div 2}

InitPair ==
  \E sh \in PairShapes, M \in 1 .. MaxM, E \in 1 .. MaxE, red \in MainTokens,
     site \in {"value", "mat"} :
    /\ sh[1] * M * sh[3] <= MaxDense
    /\ \E rp \in RowPtrs(M, E), c \in Flat(E, 0 .. (sh[2] - 1)),
          v \in Flat(E, InputVals), d \in Flat(sh[1] * sh[2] * sh[3], InputVals),
          g \in Flat(sh[1] * M * sh[3],
                     IF red \in {"sum", "mean"} /\ site = "value"
                     THEN GradVals ELSE {1}) :
         LET call == [SpmmCall(rp, c, TRUE, v, d, Sizes(sh[1], sh[2], sh[3]), red)
                        EXCEPT !.row = RowIndex(rp, E), !.grad = g,
                               !.grad_sizes = Sizes(sh[1], M, sh[3])]
         IN /\ inp = call
            /\ IF site = "value"
               THEN \E e \in DOMAIN v : \E x \in InputVals \ {v[e]} :
                      inp2 = [call EXCEPT !.value[e] = x]
               ELSE \E i \in DOMAIN d : \E x \in InputVals \ {d[i]} :
                      inp2 = [call EXCEPT !.mat[i] = x]
            /\ fwd = Called
            /\ fwd2 = Called
            /\ bwd = BwCalled

SpecPair == InitPair /\ [][Next]_vars

(***************************************************************************)
(* What the claims speak of.                                               *)
(***************************************************************************)
REDUCE == reduce2REDUCE[inp.reduce]

Bs == 0 .. (SizeB(inp) - 1)
Ms == 0 .. (SizeM(inp) - 1)
Ks == 0 .. (SizeK(inp) - 1)
Es == 0 .. (SizeE(inp) - 1)

\* Row (b, m) of the output has been written by the call s.
Written(s, b, m) ==
  /\ s.pc \in {"loop", "done"}
  /\ b < s.b \/ (b = s.b /\ m < s.m)

Slot(b, m, k) == b * SizeM(inp) * SizeK(inp) + m * SizeK(inp) + k

Degree(in, m) == in.rowptr[m + 1] - in.rowptr[m]
RowEntries(in, m) == {e \in 0 .. (SizeE(in) - 1) : in.rowptr[m] <= e /\ e < in.rowptr[m + 1]}
Weight(in, e) == IF in.has_value THEN in.value[e] ELSE 1
Dense(in, b, c, k) == in.mat[b * SizeN(in) * SizeK(in) + c * SizeK(in) + k]
Product(in, b, e, k) == Weight(in, e) * Dense(in, b, in.col[e], k)
Contribution(in, b, e, k) == ToScalar(Product(in, b, e, k))

RECURSIVE SumProducts(_, _, _, _)
SumProducts(in, b, k, S) ==
  IF S = {} THEN 0
  ELSE LET e == CHOOSE x \in S : TRUE
       IN Product(in, b, e, k) + SumProducts(in, b, k, S \ {e})

SumResult(in, b, m, k) == ToScalar(SumProducts(in, b, k, RowEntries(in, m)))

WellFormedSpmm == KnownReduce(inp.reduce) /\ fwd.pc \in {"loop", "done"}

\* C1: with reduction "sum" every written out[b,m,k] is the sum, in the
\* element type, of weight(e) * dense[b,col[e],k] over the entries e of row
\* m (weight 1 when value is absent); an empty row gives 0.
SpmmSumIsRowSum ==
  (WellFormedSpmm /\ REDUCE = "SUM") =>
    \A b \in Bs, m \in Ms, k \in Ks :
      Written(fwd, b, m) =>
        /\ fwd.out[Slot(b, m, k)] = SumResult(inp, b, m, k)
        /\ Degree(inp, m) = 0 => fwd.out[Slot(b, m, k)] = 0

SpmmSumWitness ==
  /\ fwd.pc = "done"
  /\ inp.reduce = "sum"
  /\ inp.has_value
  /\ \E m \in Ms : Degree(inp, m) = 0
  /\ \E b \in Bs, m \in Ms, k \in Ks :
       /\ Degree(inp, m) = 2
       /\ SumProducts(inp, b, k, RowEntries(inp, m)) > ScalarMax
       /\ fwd.out[Slot(b, m, k)] # 0

\* C2: with reduction "min" (resp. "max"), for every written non-empty row
\* arg_out[b,m,k] is an entry of row m, out[b,m,k] is that entry's
\* contribution, no entry of the row has a strictly lesser (greater)
\* contribution, and arg_out[b,m,k] is the first entry attaining out[b,m,k].
SpmmArgIsFirstExtreme ==
  (WellFormedSpmm /\ REDUCE \in {"MIN", "MAX"}) =>
    \A b \in Bs, m \in Ms, k \in Ks :
      (Written(fwd, b, m) /\ Degree(inp, m) > 0) =>
        LET a == fwd.arg_out[Slot(b, m, k)]
            o == fwd.out[Slot(b, m, k)]
        IN /\ a \in RowEntries(inp, m)
           /\ o = Contribution(inp, b, a, k)
           /\ \A e \in RowEntries(inp, m) :
                IF REDUCE = "MIN" THEN ~(Contribution(inp, b, e, k) < o)
                ELSE ~(Contribution(inp, b, e, k) > o)
           /\ \A e \in RowEntries(inp, m) : Contribution(inp, b, e, k) = o => a <= e

\* C3: with reduction "min" or "max" an empty row gives out = 0 and
\* arg_out = E (col.numel()), whatever rows were processed before it.
SpmmEmptyRowSentinel ==
  (WellFormedSpmm /\ REDUCE \in {"MIN", "MAX"}) =>
    \A b \in Bs, m \in Ms, k \in Ks :
      (Written(fwd, b, m) /\ Degree(inp, m) = 0) =>
        /\ fwd.out[Slot(b, m, k)] = 0
        /\ fwd.arg_out[Slot(b, m, k)] = SizeE(inp)

SpmmEmptyRowWitness ==
  /\ fwd.pc = "done"
  /\ inp.reduce = "min"
  /\ \E b \in Bs, m \in Ms, k \in Ks :
       /\ m > 0
       /\ Degree(inp, m) = 0
       /\ Degree(inp, m - 1) = 2
       /\ fwd.arg_out[Slot(b, m - 1, k)] = 1
       /\ fwd.args[k] = 1
       /\ fwd.arg_out[Slot(b, m, k)] = 2

\* C4: with reduction "mean" every written out[b,m,k] is the Sum result for
\* (b,m,k) divided by max(degree of row m, 1); an empty row gives 0.
SpmmMeanIsSumOverDegree ==
  (WellFormedSpmm /\ REDUCE = "MEAN") =>
    \A b \in Bs, m \in Ms, k \in Ks :
      Written(fwd, b, m) =>
        /\ fwd.out[Slot(b, m, k)] =
             SumResult(inp, b, m, k) \div Max2(Degree(inp, m), 1)
        /\ Degree(inp, m) = 0 => fwd.out[Slot(b, m, k)] = 0

SpmmMeanWitness ==
  /\ fwd.pc = "done"
  /\ inp.reduce = "mean"
  /\ \E m \in Ms : Degree(inp, m) = 0
  /\ \E b \in Bs, m \in Ms, k \in Ks :
       /\ Degree(inp, m) = 2
       /\ SumResult(inp, b, m, k) = 3
       /\ fwd.out[Slot(b, m, k)] = 1

(***************************************************************************)
(* spmm_val_bw against its contract.                                       *)
(***************************************************************************)
\* row, col, rowptr, mat and grad describe one (B, N, K) x (B, M, K) problem.
ShapesAgree(in) ==
  /\ Numel(in.row) = Numel(in.col)
  /\ Len(in.grad_sizes) >= 2
  /\ MatDim(in) >= 2
  /\ in.grad_sizes[Len(in.grad_sizes)] = SizeK(in)
  /\ GradM(in) = SizeM(in)
  /\ Numel(in.grad) = SizeB(in) * SizeM(in) * SizeK(in)

GradAt(in, b, r, k) == in.grad[b * SizeM(in) * SizeK(in) + r * SizeK(in) + k]

RECURSIVE DotUpTo(_, _, _, _)
DotUpTo(in, b, e, n) ==
  IF n = 0 THEN 0
  ELSE Dense(in, b, in.col[e], n - 1) * GradAt(in, b, in.row[e], n - 1)
       + DotUpTo(in, b, e, n - 1)

Term(in, b, e) ==
  IF reduce2REDUCE[in.reduce] = "MEAN"
  THEN ToScalar(DotUpTo(in, b, e, SizeK(in))) \div Max2(Degree(in, in.row[e]), 1)
  ELSE ToScalar(DotUpTo(in, b, e, SizeK(in)))

RECURSIVE TermsUpTo(_, _, _)
TermsUpTo(in, e, n) ==
  IF n = 0 THEN 0 ELSE Term(in, n - 1, e) + TermsUpTo(in, e, n - 1)

BwRejectsShapeMismatch ==
  (bwd.pc # "idle" /\ inp.cuda = {} /\ ~ShapesAgree(inp)) =>
    /\ bwd.pc \in {"check_cpu", "alloc", "failed"}
    /\ bwd.pc = "failed" => bwd.err \in {"shape", "index"}

(***************************************************************************)
(* Failures.                                                               *)
(***************************************************************************)
\* C7: with a token that is not one of sum, add, mean, min, max neither
\* kernel enters its loop nest or returns, no arg_out is made and no element
\* of an output is computed.
UnknownTokenFails ==
  inp.reduce \notin {"sum", "add", "mean", "min", "max"} =>
    /\ fwd.pc \notin {"loop", "done"}
    /\ ~fwd.has_arg_out
    /\ \A i \in DOMAIN fwd.out : fwd.out[i] = Uninit
    /\ bwd.pc \notin {"loop", "done"}
    /\ \A e \in DOMAIN bwd.out : bwd.out[e] = 0

UnknownTokenWitness ==
  /\ inp.reduce = "prod"
  /\ fwd.pc = "failed"
  /\ fwd.err = "reduce"
  /\ bwd.pc = "failed"
  /\ bwd.err = "reduce"

DeviceBad(in) ==
  \E t \in in.cuda : t \in {"rowptr", "col", "mat"} \/ (t = "value" /\ in.has_value)

RankBad(in) ==
  \/ in.rowptr_dim # 1
  \/ in.col_dim # 1
  \/ in.has_value /\ in.value_dim # 1
  \/ MatDim(in) < 2

\* C9: spmm reports an operand on the wrong device before any rank check,
\* and a rank violation before the token is looked up; a failed call has
\* written no output element.
SpmmValidationOrder ==
  fwd.pc # "idle" =>
    /\ DeviceBad(inp) =>
         /\ fwd.pc \in {"check_cpu", "failed"}
         /\ fwd.pc = "failed" => fwd.err = "device"
    /\ (~DeviceBad(inp) /\ RankBad(inp)) =>
         /\ fwd.pc \in {"check_cpu", "check_dim", "failed"}
         /\ fwd.pc = "failed" => fwd.err = "shape"
    /\ (DeviceBad(inp) \/ RankBad(inp)) => fwd.out = <<>>
    /\ fwd.pc = "failed" =>
         /\ ~fwd.has_arg_out
         /\ \A i \in DOMAIN fwd.out : fwd.out[i] = Uninit

SpmmValidationWitness ==
  /\ fwd.pc = "failed"
  /\ fwd.err = "shape"
  /\ ~DeviceBad(inp)
  /\ MatDim(inp) < 2
  /\ inp.rowptr_dim = 1
  /\ ~KnownReduce(inp.reduce)

(***************************************************************************)
(* Two calls that differ in one operand element.                           *)
(***************************************************************************)
ValueSites == {e \in DOMAIN inp.value : inp.value[e] # inp2.value[e]}
MatSites == {i \in DOMAIN inp.mat : inp.mat[i] # inp2.mat[i]}

\* The differing element is neither a weight of row m nor in batch b.
Unaffected(b, m) ==
  /\ \A e \in ValueSites : inp.row[e] # m
  /\ \A i \in MatSites : i \div (SizeN(inp) * SizeK(inp)) # b

\* C10: out[b,m,:] and arg_out[b,m,:] depend only on batch b of dense and on
\* the entries of row m: two calls that agree on these return the same
\* out[b,m,:] and arg_out[b,m,:].
RowsIndependent ==
  (fwd.pc = "done" /\ fwd2.pc = "done") =>
    \A b \in Bs, m \in Ms, k \in Ks :
      Unaffected(b, m) =>
        /\ fwd.out[Slot(b, m, k)] = fwd2.out[Slot(b, m, k)]
        /\ fwd.has_arg_out => fwd.arg_out[Slot(b, m, k)] = fwd2.arg_out[Slot(b, m, k)]

RECURSIVE WeightedChange(_)
WeightedChange(n) ==
  IF n = 0 THEN 0
  ELSE inp.grad[n - 1] * (fwd2.out[n - 1] - fwd.out[n - 1]) + WeightedChange(n - 1)

Perturbed(e) ==
  /\ fwd.pc = "done"
  /\ fwd2.pc = "done"
  /\ bwd.pc = "done"
  /\ REDUCE \in {"SUM", "MEAN"}
  /\ ValueSites = {e}
  /\ MatSites = {}

FirstOrder(e) ==
  ToScalar(WeightedChange(Numel(fwd.out)))
    = ToScalar((inp2.value[e] - inp.value[e]) * bwd.out[e])

\* C6 as stated: for Sum and Mean, changing value[e] by eps changes
\* sum(grad * out) by eps * g[e], g being the result of spmm_val_bw.
FiniteDifference == \A e \in Es : Perturbed(e) => FirstOrder(e)

\* C6 as amended: the same, in the arithmetic of the element type, for Sum,
\* and for Mean when the row of e has one entry.
FiniteDifferenceExact ==
  \A e \in Es :
    (Perturbed(e) /\ (REDUCE = "SUM" \/ Degree(inp, inp.row[e]) = 1)) => FirstOrder(e)

FiniteDifferenceWitness ==
  \E e \in Es :
    /\ Perturbed(e)
    /\ REDUCE = "SUM"
    /\ Degree(inp, inp.row[e]) = 2
    /\ SizeB(inp) = 2
    /\ bwd.out[e] = 3
    /\ ToScalar(WeightedChange(Numel(fwd.out))) = 1

====
